---------------------------- MODULE Spec2Model ----------------------------
(***************************************************************************)
(* Sharded backup creation of clickhouse-backup (package backup):          *)
(*   canShardOperation            the version gate                          *)
(*   fnvHashModShardFunc          the ownership function of one table      *)
(*   replicaDeterminer            getReplicaState / determineShards        *)
(*   shardDetermination.inShard   the lookup in a determination            *)
(*   Backuper.populateBackupShardField   the annotation of a table batch   *)
(*                                                                         *)
(* Strings are sequences of bytes, so that fmt.Sprintf("%s.%s"), the FNV   *)
(* hash and sort.Strings are computed on what the code computes them on.   *)
(* A Go error is the chain of the identities errors.Is walks, outermost    *)
(* first; nil is the empty chain.                                          *)
(***************************************************************************)
EXTENDS Integers, Sequences, FiniteSets, TLC

(***************************************************************************)
(* Bounds of the model.                                                    *)
(***************************************************************************)
\* replicas of the cluster (names are the first NumReplicas of ReplicaPool)
NumReplicas == 3
\* largest activity indicator of replica_is_active (the smallest is -1)
MaxActive == 2
\* rows one query to system.replicas returns (single-node specification)
MaxRows == 2
\* tables of the batch given to populateBackupShardField
MaxTables == 2
\* changes of a replica's activity while the cluster is backed up
MaxFlaps == 2
\* length of the database and table names whose keys are compared
MaxNameLen == 2

(***************************************************************************)
(* Names.                                                                  *)
(***************************************************************************)
\* "r2", "r10", "r1", "r", "r3": sort.Strings orders them r < r1 < r10 < r2 < r3
ReplicaPool ==
    << <<114, 50>>, <<114, 49, 48>>, <<114, 49>>, <<114>>, <<114, 51>> >>

Replicas == {ReplicaPool[k] : k \in 1..NumReplicas}

\* the replica name of the node of the single-node specification, and another
Local == ReplicaPool[1]
Other == ReplicaPool[2]

\* (database, table) pairs: ("a","t"), ("b","t"), and the two pairs
\* ("a.b","c") and ("a","b.c"), whose qualified names are both "a.b.c"
TableIds ==
    { [Database |-> <<97>>, Name |-> <<116>>],
      [Database |-> <<98>>, Name |-> <<116>>],
      [Database |-> <<97, 46, 98>>, Name |-> <<99>>],
      [Database |-> <<97>>, Name |-> <<98, 46, 99>>] }

\* the separator of fmt.Sprintf("%s.%s", ...)
Dot == 46

(***************************************************************************)
(* Errors.                                                                 *)
(***************************************************************************)
nil == << >>

\* errors.New(text)
New(text) == <<text>>

\* fmt.Errorf(context + ": %w", e): a new error that wraps e
Errorf(context, e) == <<context>> \o e

\* errors.Is(e, target): e, or an error e wraps, is target
Is(e, target) ==
    \/ e = target
    \/ \E k \in 1..Len(e) : SubSeq(e, k, Len(e)) = target

errUnknownBackupShard == New("unknown backup shard")
errNoActiveReplicas == New("no active replicas")
errShardOperationVers ==
    New("sharded operations are only supported for clickhouse-server >= v21.x")
\* the errors of the collaborators: the versioner's and the querier's
errVersion == New("versioner error")
errQuery == New("querier error")

(***************************************************************************)
(* hash/fnv, New32a: FNV-1a on 32 bits.  A 32-bit word is kept as its two  *)
(* 16-bit halves, so that no intermediate value leaves the integers the    *)
(* model checker computes with.                                            *)
(***************************************************************************)
Half == 65536

\* offset32 = 2166136261 = 0x811C9DC5
offset32 == [hi |-> 33052, lo |-> 40389]

\* prime32 = 16777619 = 0x01000193
prime32 == 16777619

RECURSIVE XorBits(_, _, _)
XorBits(a, b, n) ==
    IF n = 0 THEN 0
    ELSE (((a % 2) + (b % 2)) % 2) + 2 * XorBits(a \div 2, b \div 2, n - 1)

\* hash ^= uint32(c)
XorByte(h, c) ==
    [hi |-> h.hi, lo |-> ((h.lo \div 256) * 256) + XorBits(h.lo % 256, c, 8)]

\* hash *= prime32  (mod 2^32)
MulPrime(h) ==
    LET pl == prime32 % Half
        ph == prime32 \div Half
        low == h.lo * pl
    IN  [hi |-> ((h.hi * pl) + (h.lo * ph) + (low \div Half)) % Half,
         lo |-> low % Half]

\* (*sum32a).Write
RECURSIVE Write(_, _)
Write(h, data) ==
    IF data = << >> THEN h
    ELSE Write(MulPrime(XorByte(h, Head(data))), Tail(data))

\* h.Sum32() % uint32(n), for n >= 1
ModUint32(h, n) == (((h.hi % n) * (Half % n)) + (h.lo % n)) % n

(***************************************************************************)
(* sort.Strings: ascending byte-wise lexicographic order.                  *)
(***************************************************************************)
RECURSIVE Less(_, _)
Less(s, t) ==
    IF t = << >> THEN FALSE
    ELSE IF s = << >> THEN TRUE
    ELSE IF Head(s) # Head(t) THEN Head(s) < Head(t)
    ELSE Less(Tail(s), Tail(t))

RECURSIVE Insert(_, _)
Insert(x, sorted) ==
    IF sorted = << >> THEN <<x>>
    ELSE IF Less(x, Head(sorted)) THEN <<x>> \o sorted
    ELSE <<Head(sorted)>> \o Insert(x, Tail(sorted))

RECURSIVE SortStrings(_)
SortStrings(names) ==
    IF names = << >> THEN << >>
    ELSE Insert(Head(names), SortStrings(Tail(names)))

(***************************************************************************)
(* tableReplicaMetadata and fnvHashModShardFunc.                           *)
(***************************************************************************)
\* mutant of lines 26 and 50: the separator is missing from the format
fullNameJoined(database, table) == database \o table

\* (md *tableReplicaMetadata).fullName, and the key inShard builds
fullName(database, table) == database \o <<Dot>> \o table

\* the sequences that list every element of the set S once
RECURSIVE Orderings(_)
Orderings(S) ==
    IF S = {} THEN {<< >>}
    ELSE UNION {{<<x>> \o p : p \in Orderings(S \ {x})} : x \in S}

\* the orders in which a range over map m may visit its keys
RangeOrders(m) == Orderings(DOMAIN m)

\* mutants of line 69: != 0, and >= 0
isActiveNonZero(active) == active # 0

isActiveNonNegative(active) == active >= 0

\* line 69: if active > 0

isActive(active) == active > 0

\* mutant of lines 67-77, line 77 missing: the active replicas as the
\* range met them
activeReplicasUnsorted(md, order) ==
    SelectSeq(order, LAMBDA r : isActive(md.ReplicaIsActive[r]))

\* lines 67-77: the active replicas of md, sorted; the range over
\* md.ReplicaIsActive visits its keys in the order `order'
activeReplicas(md, order) ==
    SortStrings(SelectSeq(order, LAMBDA r : isActive(md.ReplicaIsActive[r])))

\* mutant of lines 79-81: FNV-1 (multiply, then xor) instead of FNV-1a
RECURSIVE WriteFNV1(_, _)
WriteFNV1(h, data) ==
    IF data = << >> THEN h
    ELSE WriteFNV1(XorByte(MulPrime(h), Head(data)), Tail(data))

Sum32FNV1(name) == WriteFNV1(offset32, name)

\* lines 79-81: h := fnv.New32a(); h.Write([]byte(name)); h.Sum32()
Sum32(name) == Write(offset32, name)

\* line 81: the index into the n sorted active replicas, n >= 1
shardIndex(md, n) == ModUint32(Sum32(fullName(md.Database, md.Table)), n)

\* fnvHashModShardFunc(md), the range over md.ReplicaIsActive visiting its
\* keys in the order `order'
fnvHashModShardFunc(md, order) ==
    LET active == activeReplicas(md, order)
    IN  IF Len(active) = 0
        THEN [assigned |-> FALSE,
              err |-> Errorf("could not determine in-shard state",
                             errNoActiveReplicas)]
        ELSE [assigned |->
                  active[shardIndex(md, Len(active)) + 1] = md.ReplicaName,
              err |-> nil]

(***************************************************************************)
(* canShardOperation.                                                      *)
(***************************************************************************)
minVersShardOp == 21000000

\* mutant of line 29: <= instead of <
canShardOperationAbove(ret) ==
    IF ret.err # nil THEN ret.err
    ELSE IF ret.version <= minVersShardOp THEN errShardOperationVers
    ELSE nil

\* canShardOperation(ctx, v), ret being what v.GetVersion(ctx) returns
canShardOperation(ret) ==
    IF ret.err # nil THEN ret.err
    ELSE IF ret.version < minVersShardOp THEN errShardOperationVers
    ELSE nil

(***************************************************************************)
(* shardDetermination: a map from qualified names to booleans.  A          *)
(* determination is the record [null, entries]: null for Go's nil map,     *)
(* entries the function from the keys of the map to their values.          *)
(***************************************************************************)
nilDetermination == [null |-> TRUE, entries |-> << >>]
emptyDetermination == [null |-> FALSE, entries |-> << >>]

\* mutant of line 122: an entry that exists is kept
StoreIfAbsent(sd, key, value) ==
    [null |-> FALSE,
     entries |-> [x \in (DOMAIN sd.entries) \cup {key} |->
                     IF x \in DOMAIN sd.entries THEN sd.entries[x]
                     ELSE value]]

\* sd[key] = value
Store(sd, key, value) ==
    [null |-> FALSE,
     entries |-> [x \in (DOMAIN sd.entries) \cup {key} |->
                     IF x = key THEN value ELSE sd.entries[x]]]

\* mutant of lines 28-31: an unknown table is silently out of the shard
inShardDefault(d, database, table) ==
    LET key == fullName(database, table)
    IN  IF key \notin DOMAIN d.entries
        THEN [present |-> FALSE, err |-> nil]
        ELSE [present |-> d.entries[key], err |-> nil]

\* (d shardDetermination).inShard(database, table)
inShard(d, database, table) ==
    LET key == fullName(database, table)
    IN  IF key \notin DOMAIN d.entries
        THEN [present |-> FALSE,
              err |-> Errorf("error determining backup shard state",
                             errUnknownBackupShard)]
        ELSE [present |-> d.entries[key], err |-> nil]

(***************************************************************************)
(* replicaDeterminer.                                                      *)
(***************************************************************************)
\* mutant of line 106: the querier's error is formatted into the message
\* (%v) instead of wrapped (%w)
getReplicaStateOpaque(resp) ==
    IF resp.returnErr # nil
    THEN [md |-> << >>, err |-> New("could not determine replication state")]
    ELSE [md |-> resp.data, err |-> nil]

\* (rd *replicaDeterminer).getReplicaState, resp being how the querier
\* answers StructSelectContext: the rows it decodes, or the error it returns
getReplicaState(resp) ==
    IF resp.returnErr # nil
    THEN [md |-> << >>,
          err |-> Errorf("could not determine replication state",
                         resp.returnErr)]
    ELSE [md |-> resp.data, err |-> nil]

\* what rd.sf(&entry) may return: the range over the activity map takes one
\* of its orders
shardFuncReturns(entry) ==
    {fnvHashModShardFunc(entry, order) :
        order \in RangeOrders(entry.ReplicaIsActive)}

\* mutant of line 120: the entries stored so far are returned with the error
failedPartial(sd, e, rets) == [sd |-> sd, err |-> e, rets |-> rets]

\* line 120: return nil, err (rets: the returns of rd.sf so far)
failed(sd, e, rets) == [sd |-> nilDetermination, err |-> e, rets |-> rets]

\* the loop of determineShards from row k on, sd and rets being the
\* determination built and the returns of rd.sf so far: its possible
\* outcomes, one per choice of the returns of rd.sf
RECURSIVE shardLoop(_, _, _, _)
shardLoop(md, k, sd, rets) ==
    IF k > Len(md) THEN {[sd |-> sd, err |-> nil, rets |-> rets]}
    ELSE UNION {
           IF r.err # nil
           THEN {failed(sd, r.err, Append(rets, r))}
           ELSE shardLoop(md, k + 1,
                          Store(sd, fullName(md[k].Database, md[k].Table),
                                r.assigned),
                          Append(rets, r)) :
           r \in shardFuncReturns(md[k])}

\* (rd *replicaDeterminer).determineShards: its possible outcomes
determineShards(resp) ==
    LET st == getReplicaState(resp)
    IN  IF st.err # nil
        THEN {[sd |-> nilDetermination, err |-> st.err, rets |-> << >>,
               md |-> st.md]}
        ELSE {[md |-> st.md] @@ out :
                 out \in shardLoop(st.md, 1, emptyDetermination, << >>)}

(***************************************************************************)
(* clickhouse.Table and its BackupType.                                    *)
(***************************************************************************)
ShardBackupFull == "full"
ShardBackupSchema == "schema-only"
\* the zero value of the field
ShardBackupUnset == ""

(***************************************************************************)
(* State.  Every variable is a function of the nodes that run a backup:    *)
(* one Backuper per node, no state shared between nodes.                   *)
(***************************************************************************)
VARIABLES
    cfg,         \* b.cfg.General.ShardedOperation
    tables,      \* the slice given to populateBackupShardField
    pc,          \* the position in populateBackupShardField
    i,           \* the index of the loop over the tables (from 1)
    versRet,     \* what b.vers.GetVersion returned, once called
    gateRet,     \* what canShardOperation returned, once called
    md,          \* the rows getReplicaState returned
    sfRet,       \* what rd.sf returned, row by row
    assignment,  \* what b.bs.determineShards returned
    lookups,     \* the calls of assignment.inShard and their results
    err,         \* what populateBackupShardField returned (pc = "done")
    calls,       \* the collaborators called, in order
    writes,      \* per table, the assignments to its BackupType
    replicaIsActive,  \* the cluster: per table, the activity of its replicas
    flaps        \* the changes of activity so far

vars == <<cfg, tables, pc, i, versRet, gateRet, md, sfRet, assignment, lookups, err,
          calls, writes, replicaIsActive, flaps>>

Nodes == DOMAIN pc

(***************************************************************************)
(* populateBackupShardField, step by step.                                 *)
(***************************************************************************)
\* mutant of lines 446-451: the flag is tested before the default is set
defaultTablesIfSharded(tbls, sharded) ==
    IF sharded
    THEN [k \in DOMAIN tbls |-> [tbls[k] EXCEPT !.BackupType = ShardBackupFull]]
    ELSE tbls

\* lines 446-448: the tables once the first loop is over, sharded being
\* b.cfg.General.ShardedOperation (not read before line 449)
defaultTables(tbls, sharded) ==
    [k \in DOMAIN tbls |-> [tbls[k] EXCEPT !.BackupType = ShardBackupFull]]

\* lines 446-451: every table defaults to a full backup; done if sharded
\* operation is off
SetDefault(n) ==
    /\ n \in Nodes
    /\ pc[n] = "start"
    /\ tables' = [tables EXCEPT ![n] = defaultTables(@, cfg[n])]
    /\ writes' = [writes EXCEPT ![n] = [k \in DOMAIN @ |-> @[k] + 1]]
    /\ pc' = [pc EXCEPT ![n] = IF cfg[n] THEN "gate" ELSE "done"]
    /\ UNCHANGED <<cfg, i, versRet, gateRet, md, sfRet, assignment, lookups,
                   err, calls, replicaIsActive, flaps>>

\* mutant of lines 452-454: the error of the gate is dropped
afterGateAlways(e) == "determine"

\* lines 452-454: where the function goes once canShardOperation returned e
afterGate(e) == IF e # nil THEN "done" ELSE "determine"

\* lines 452-454: canShardOperation(ctx, b.vers), the versioner returning
\* one of `returns'
VersionGate(n, returns) ==
    /\ n \in Nodes
    /\ pc[n] = "gate"
    /\ \E ret \in returns :
          /\ versRet' = [versRet EXCEPT ![n] = <<ret>>]
          /\ LET e == canShardOperation(ret)
             IN  /\ gateRet' = [gateRet EXCEPT ![n] = <<e>>]
                 /\ err' = [err EXCEPT ![n] = e]
                 /\ pc' = [pc EXCEPT ![n] = afterGate(e)]
    /\ calls' = [calls EXCEPT ![n] = Append(@, "GetVersion")]
    /\ UNCHANGED <<cfg, tables, i, md, sfRet, assignment, lookups, writes,
                   replicaIsActive, flaps>>

\* mutant of lines 456-458: the error of determineShards is dropped
afterDetermineAlways(e) == "annotate"

\* lines 456-458: where the function goes once determineShards returned e
afterDetermine(e) == IF e # nil THEN "done" ELSE "annotate"

\* lines 455-458: b.bs.determineShards(ctx), the querier answering one of
\* `responses'
DetermineShards(n, responses) ==
    /\ n \in Nodes
    /\ pc[n] = "determine"
    /\ \E resp \in responses :
       \E r \in determineShards(resp) :
              /\ md' = [md EXCEPT ![n] = r.md]
              /\ sfRet' = [sfRet EXCEPT ![n] = r.rets]
              /\ assignment' = [assignment EXCEPT ![n] = r.sd]
              /\ err' = [err EXCEPT ![n] = r.err]
              /\ pc' = [pc EXCEPT ![n] = afterDetermine(r.err)]
    /\ i' = [i EXCEPT ![n] = 1]
    /\ calls' = [calls EXCEPT ![n] =
                   Append(Append(@, "determineShards"), "StructSelectContext")]
    /\ UNCHANGED <<cfg, tables, versRet, gateRet, lookups, writes, replicaIsActive,
                   flaps>>

\* mutants of lines 464-466: the test inverted; the downgrade missing
annotatedInverted(t, typ) ==
    IF typ THEN [t EXCEPT !.BackupType = ShardBackupSchema] ELSE t

annotatedNever(t, typ) == t

\* mutant of line 465: the element is replaced by a new clickhouse.Table
annotatedReplaced(t, typ) ==
    IF ~typ
    THEN [Database |-> << >>, Name |-> << >>, BackupType |-> ShardBackupSchema]
    ELSE t

\* lines 464-466: table t once inShard returned typ for it
annotated(t, typ) ==
    IF ~typ THEN [t EXCEPT !.BackupType = ShardBackupSchema] ELSE t

\* mutant of lines 461-463: the loop goes on after a failed lookup
afterLookupAlways(e) == "annotate"

\* lines 461-463: where the function goes once inShard returned e
afterLookup(e) == IF e # nil THEN "done" ELSE "annotate"

\* lines 459-467, one iteration: the lookup of tables[i] and its downgrade
AnnotateTable(n) ==
    /\ n \in Nodes
    /\ pc[n] = "annotate"
    /\ i[n] <= Len(tables[n])
    /\ LET t == tables[n][i[n]]
           r == inShard(assignment[n], t.Database, t.Name)
       IN  /\ lookups' = [lookups EXCEPT ![n] =
                            Append(@, [index |-> i[n], database |-> t.Database,
                                       table |-> t.Name, present |-> r.present,
                                       err |-> r.err])]
           /\ err' = [err EXCEPT ![n] = r.err]
           /\ pc' = [pc EXCEPT ![n] = afterLookup(r.err)]
           /\ IF r.err # nil
              THEN UNCHANGED <<tables, writes, i>>
              ELSE /\ i' = [i EXCEPT ![n] = @ + 1]
                   /\ tables' = [tables EXCEPT ![n][i[n]] =
                                   annotated(@, r.present)]
                   /\ writes' = [writes EXCEPT ![n][i[n]] =
                                   IF ~r.present THEN @ + 1 ELSE @]
    /\ calls' = [calls EXCEPT ![n] = Append(@, "inShard")]
    /\ UNCHANGED <<cfg, versRet, gateRet, md, sfRet, assignment,
                   replicaIsActive, flaps>>

\* line 468: the loop is over
Return(n) ==
    /\ n \in Nodes
    /\ pc[n] = "annotate"
    /\ i[n] > Len(tables[n])
    /\ pc' = [pc EXCEPT ![n] = "done"]
    /\ err' = [err EXCEPT ![n] = nil]
    /\ UNCHANGED <<cfg, tables, i, versRet, gateRet, md, sfRet, assignment,
                   lookups, calls, writes, replicaIsActive, flaps>>

(***************************************************************************)
(* Spec: one node, its collaborators free.  The versioner returns any      *)
(* version with or without an error; the querier fails, or decodes any     *)
(* rows of the node's system.replicas, in any order, duplicates included.  *)
(***************************************************************************)
Versions ==
    {0 - 1, minVersShardOp - 1, minVersShardOp, minVersShardOp + 1}

VersionerReturns ==
    {[version |-> v, err |-> e] : v \in Versions, e \in {nil, errVersion}}

\* the tables of the node: ("a","t") and the two that share "a.b.c"
NodeTableIds == {t \in TableIds : t.Database # <<98>>}

\* activity maps of a row: none active, the local replica only, another only
NodeViews == {<< >>, Local :> 1, Other :> 1}

NodeRows ==
    {[Database |-> t.Database, Table |-> t.Name, ReplicaName |-> Local,
      ReplicaIsActive |-> m] : t \in NodeTableIds, m \in NodeViews}

QuerierResponses ==
    {[data |-> << >>, returnErr |-> errQuery]} \cup
    {[data |-> rows, returnErr |-> nil] :
        rows \in UNION {[1..k -> NodeRows] : k \in 0..MaxRows}}

Batches(ids) ==
    UNION {[1..k -> {[Database |-> t.Database, Name |-> t.Name,
                      BackupType |-> b] :
                        t \in ids, b \in {ShardBackupUnset, ShardBackupSchema}}] :
              k \in 0..MaxTables}

\* the state of the nodes N before populateBackupShardField runs
Fresh(N) ==
    /\ pc = [n \in N |-> "start"]
    /\ i = [n \in N |-> 0]
    /\ versRet = [n \in N |-> << >>]
    /\ gateRet = [n \in N |-> << >>]
    /\ md = [n \in N |-> << >>]
    /\ sfRet = [n \in N |-> << >>]
    /\ assignment = [n \in N |-> nilDetermination]
    /\ lookups = [n \in N |-> << >>]
    /\ err = [n \in N |-> nil]
    /\ calls = [n \in N |-> << >>]
    /\ writes = [n \in N |-> [k \in DOMAIN tables[n] |-> 0]]

Init ==
    /\ cfg \in [{Local} -> BOOLEAN]
    /\ tables \in [{Local} -> Batches(NodeTableIds)]
    /\ Fresh({Local})
    /\ replicaIsActive = << >>
    /\ flaps = 0

Next ==
    \/ \E n \in Replicas : SetDefault(n)
    \/ \E n \in Replicas : VersionGate(n, VersionerReturns)
    \/ \E n \in Replicas : DetermineShards(n, QuerierResponses)
    \/ \E n \in Replicas : AnnotateTable(n)
    \/ \E n \in Replicas : Return(n)

Spec == Init /\ [][Next]_vars

(***************************************************************************)
(* SpecShardFunc: fnvHashModShardFunc alone.  One snapshot of one table    *)
(* (any activity map over the replicas, indicators from -1 to MaxActive)   *)
(* is handed to the function once per candidate local replica name.        *)
(***************************************************************************)
Indicators == (0 - 1)..MaxActive

ActivityMaps(values) == UNION {[K -> values] : K \in SUBSET Replicas}

ShardFuncTableIds == {t \in TableIds : t.Name # <<98, 46, 99>>}

\* rd.sf(&entry) on the snapshot md[n][1] of candidate n = ReplicaPool[k];
\* the candidates are served in the order of the pool
ShardFunc(k) ==
    LET n == ReplicaPool[k]
    IN
    /\ n \in Nodes
    /\ pc[n] = "start"
    /\ \A j \in 1..(k - 1) : pc[ReplicaPool[j]] = "done"
    /\ md[n] # << >>
    /\ \E r \in shardFuncReturns(md[n][1]) :
          sfRet' = [sfRet EXCEPT ![n] = Append(@, r)]
    /\ pc' = [pc EXCEPT ![n] = "done"]
    /\ calls' = [calls EXCEPT ![n] = Append(@, "sf")]
    /\ UNCHANGED <<cfg, tables, i, versRet, gateRet, md, assignment, lookups, err,
                   writes, replicaIsActive, flaps>>

InitShardFunc ==
    /\ cfg = [n \in Replicas |-> TRUE]
    /\ tables = [n \in Replicas |-> << >>]
    /\ pc = [n \in Replicas |-> "start"]
    /\ i = [n \in Replicas |-> 0]
    /\ versRet = [n \in Replicas |-> << >>]
    /\ gateRet = [n \in Replicas |-> << >>]
    /\ \E t \in ShardFuncTableIds, m \in ActivityMaps(Indicators) :
          md = [n \in Replicas |->
                  << [Database |-> t.Database, Table |-> t.Name,
                      ReplicaName |-> n, ReplicaIsActive |-> m] >>]
    /\ sfRet = [n \in Replicas |-> << >>]
    /\ assignment = [n \in Replicas |-> nilDetermination]
    /\ lookups = [n \in Replicas |-> << >>]
    /\ err = [n \in Replicas |-> nil]
    /\ calls = [n \in Replicas |-> << >>]
    /\ writes = [n \in Replicas |-> << >>]
    /\ replicaIsActive = << >>
    /\ flaps = 0

NextShardFunc == \E k \in 1..NumReplicas : ShardFunc(k)

SpecShardFunc == InitShardFunc /\ [][NextShardFunc]_vars

(***************************************************************************)
(* SpecCluster: every replica of the cluster runs a backup with sharded    *)
(* operation on and a supported version.  The querier of a node decodes    *)
(* one row per replicated table, the activity map being the cluster's and  *)
(* the rows in any order (the query has no ORDER BY).  Nodes share no      *)
(* state, so a run is not interleaved with another: every interleaving     *)
(* has the same outcome as one of these.                                   *)
(***************************************************************************)
\* the tables of the cluster: one table, or the two that share "a.b.c"
ClusterTables ==
    {{t} : t \in ShardFuncTableIds} \cup
    {{t \in TableIds : fullName(t.Database, t.Name) = <<97, 46, 98, 46, 99>>}}

\* the activity maps of the tables T: any map of a single table; of two
\* tables known to every replica, any map of ("a.b","c") and every replica
\* of ("a","b.c") active
ClusterActivity(T) ==
    IF Cardinality(T) = 1
    THEN [T -> ActivityMaps({0, 1})]
    ELSE {f \in [T -> [Replicas -> {0, 1}]] :
             \A t \in T : t.Database = <<97>> => \A r \in Replicas : f[t][r] = 1}

\* a sequence listing the set S (which one is immaterial)
SeqOf(S) == CHOOSE q \in Orderings(S) : TRUE

\* the answers of node n's querier: a row per table, in any order
ClusterResponses(n) ==
    {[data |-> [k \in DOMAIN q |->
                  [Database |-> q[k].Database, Table |-> q[k].Name,
                   ReplicaName |-> n,
                   ReplicaIsActive |-> replicaIsActive[q[k]]]],
      returnErr |-> nil] :
        q \in Orderings(DOMAIN replicaIsActive)}

ClusterVersionerReturns == {[version |-> minVersShardOp, err |-> nil]}

\* no node but n is in the middle of a run
Quiet(n) == \A m \in Nodes \ {n} : pc[m] \in {"start", "done"}

\* the cluster of the nodes N and the tables T with the activity maps
\* `activity', before any backup
Cluster(N, T, activity) ==
    /\ replicaIsActive = activity
    /\ tables = [n \in N |->
                   [k \in 1..Cardinality(T) |->
                      [Database |-> SeqOf(T)[k].Database,
                       Name |-> SeqOf(T)[k].Name,
                       BackupType |-> ShardBackupUnset]]]
    /\ cfg = [n \in N |-> TRUE]
    /\ Fresh(N)
    /\ flaps = 0

InitCluster ==
    \E T \in ClusterTables : \E activity \in ClusterActivity(T) :
        Cluster(Replicas, T, activity)

NextCluster ==
    \/ \E n \in Replicas : Quiet(n) /\ SetDefault(n)
    \/ \E n \in Replicas : Quiet(n) /\ VersionGate(n, ClusterVersionerReturns)
    \/ \E n \in Replicas : Quiet(n) /\ DetermineShards(n, ClusterResponses(n))
    \/ \E n \in Replicas : Quiet(n) /\ AnnotateTable(n)
    \/ \E n \in Replicas : Quiet(n) /\ Return(n)

SpecCluster == InitCluster /\ [][NextCluster]_vars

(***************************************************************************)
(* SpecChurn: one or two tables with two replicas, the activity of a       *)
(* replica changing between the queries of the two nodes.                  *)
(***************************************************************************)
\* the activity of replica r of table t changes
Flap(t, r) ==
    /\ flaps < MaxFlaps
    /\ \A m \in Nodes : pc[m] \in {"start", "done"}
    /\ t \in DOMAIN replicaIsActive
    /\ r \in DOMAIN replicaIsActive[t]
    /\ replicaIsActive' = [replicaIsActive EXCEPT ![t][r] = 1 - @]
    /\ flaps' = flaps + 1
    /\ UNCHANGED <<cfg, tables, pc, i, versRet, gateRet, md, sfRet, assignment, lookups,
                   err, calls, writes>>

\* one table, or the tables ("a","t") and ("b","t") together
ChurnTables ==
    {{t} : t \in ShardFuncTableIds} \cup
    {{t \in ShardFuncTableIds : t.Name = <<116>>}}

InitChurn ==
    \E T \in ChurnTables :
    \E activity \in [T -> [{Local, Other} -> {0, 1}]] :
        Cluster({Local, Other}, T, activity)

NextChurn ==
    \/ NextCluster
    \/ \E t \in TableIds, r \in Replicas : Flap(t, r)

SpecChurn == InitChurn /\ [][NextChurn]_vars

(***************************************************************************)
(* Properties of fnvHashModShardFunc, under SpecShardFunc.                 *)
(***************************************************************************)
\* the snapshot handed to the function for candidate n
Snapshot(n) == md[n][1]

\* the replicas of activity map m whose indicator is greater than zero
ActiveSet(m) == {r \in DOMAIN m : m[r] > 0}

Evaluated(n) == pc[n] = "done" /\ Len(sfRet[n]) = 1

\* byte-wise lexicographic order, stated position by position
Before(s, t) ==
    \E k \in 1..Len(t) :
        /\ \A j \in 1..(k - 1) : j <= Len(s) /\ s[j] = t[j]
        /\ (k > Len(s) \/ s[k] < t[k])

\* the list of the names S in ascending order
Ascending(S) ==
    CHOOSE q \in Orderings(S) :
        \A a, b \in DOMAIN q : a < b => Before(q[a], q[b])

\* published FNV-1a 32-bit values of the qualified names of the model,
\* as 16-bit halves: "a.t" 0x1E8C0B16, "b.t" 0x63680A7F, "a.b.c" 0xD17E547F
FNV1a32 ==
    <<97, 46, 116>> :> [hi |-> 7820, lo |-> 2838] @@
    <<98, 46, 116>> :> [hi |-> 25448, lo |-> 2687] @@
    <<97, 46, 98, 46, 99>> :> [hi |-> 53630, lo |-> 21631]

\* (hi * 2^16 + lo) mod n
Remainder(w, n) == (((w.hi % n) * ((256 * 256) % n)) + (w.lo % n)) % n

\* the owner of snapshot s: the active replica at position hash mod n of
\* the ascending list of the n active replicas
Owner(s) ==
    LET sorted == Ascending(ActiveSet(s.ReplicaIsActive))
        name == s.Database \o <<46>> \o s.Table
    IN  sorted[Remainder(FNV1a32[name], Len(sorted)) + 1]

\* C2: for a snapshot whose active set is not empty, the function is true
\* for exactly one candidate local replica name, a member of the active
\* set; an inactive or unknown candidate gets false without an error.
ShardFuncExclusive ==
    \A n \in Nodes :
        LET active == ActiveSet(Snapshot(n).ReplicaIsActive)
        IN  active # {} =>
              /\ Evaluated(n) =>
                    /\ sfRet[n][1].err = nil
                    /\ n \notin active => ~sfRet[n][1].assigned
              /\ (\A c \in Nodes : Evaluated(c)) =>
                    /\ Cardinality({c \in Nodes : sfRet[c][1].assigned}) = 1
                    /\ \A c \in Nodes : sfRet[c][1].assigned => c \in active

\* every candidate is served, two replicas are active, one is inactive
ShardFuncExclusiveWitness ==
    /\ \A c \in Nodes : Evaluated(c)
    /\ \E n \in Nodes :
          LET m == Snapshot(n).ReplicaIsActive
          IN  /\ Cardinality(ActiveSet(m)) = 2
              /\ \E c \in DOMAIN m : m[c] <= 0
              /\ sfRet[n][1].assigned

\* C3: on one snapshot the function returns the same (ownership, error)
\* pair whatever order the range over the activity map takes.
ShardFuncDeterministic ==
    \A n \in Nodes :
        Evaluated(n) =>
            \A order \in RangeOrders(Snapshot(n).ReplicaIsActive) :
                fnvHashModShardFunc(Snapshot(n), order) = sfRet[n][1]

\* a snapshot with three active replicas was handed to the function
ShardFuncDeterministicWitness ==
    \E n \in Nodes :
        /\ Evaluated(n)
        /\ Cardinality(ActiveSet(Snapshot(n).ReplicaIsActive)) = 3
        /\ sfRet[n][1].assigned

\* C4: the function fails with errNoActiveReplicas if and only if every
\* indicator of the map is <= 0 (the empty map included); otherwise it
\* returns no error.
ShardFuncNoActiveReplicas ==
    \A n \in Nodes :
        Evaluated(n) =>
            LET m == Snapshot(n).ReplicaIsActive
                none == \A r \in DOMAIN m : m[r] <= 0
            IN  /\ Is(sfRet[n][1].err, errNoActiveReplicas) <=> none
                /\ ~none => sfRet[n][1].err = nil

\* a map with a negative and a zero indicator, none positive, is refused
ShardFuncNoActiveReplicasWitness ==
    \E n \in Nodes :
        LET m == Snapshot(n).ReplicaIsActive
        IN  /\ Evaluated(n)
            /\ \E r \in DOMAIN m : m[r] < 0
            /\ \E r \in DOMAIN m : m[r] = 0
            /\ Is(sfRet[n][1].err, errNoActiveReplicas)
            /\ ~sfRet[n][1].assigned

\* C5: with n >= 1 active replicas the function is true if and only if the
\* local replica name is the element at position FNV-1a-32("database.table")
\* mod n of the ascending list of the active replicas; the index is in
\* 0..n-1.
ShardFuncOwner ==
    \A c \in Nodes :
        LET s == Snapshot(c)
            n == Cardinality(ActiveSet(s.ReplicaIsActive))
        IN  (Evaluated(c) /\ n > 0) =>
              /\ sfRet[c][1].assigned <=> (s.ReplicaName = Owner(s))
              /\ shardIndex(s, n) \in 0..(n - 1)
              /\ shardIndex(s, n) =
                    Remainder(FNV1a32[fullName(s.Database, s.Table)], n)

\* the owner is found at a position other than the first, among three
ShardFuncOwnerWitness ==
    \E c \in Nodes :
        LET s == Snapshot(c)
        IN  /\ Evaluated(c)
            /\ Cardinality(ActiveSet(s.ReplicaIsActive)) = 3
            /\ shardIndex(s, 3) = 2
            /\ sfRet[c][1].assigned

(***************************************************************************)
(* Properties of populateBackupShardField on one node, under Spec.         *)
(***************************************************************************)
\* the run of node n is over
Done(n) == pc[n] = "done"

\* every table of node n is marked for a full backup
AllFull(n) ==
    \A k \in DOMAIN tables[n] : tables[n][k].BackupType = ShardBackupFull

\* the rows of node n's replica-state answer whose qualified name is key
RowsOf(n, key) ==
    {k \in DOMAIN md[n] : md[n][k].Database \o <<46>> \o md[n][k].Table = key}

\* the last of them in result order
LastRow(n, key) ==
    CHOOSE k \in RowsOf(n, key) : \A j \in RowsOf(n, key) : j <= k

\* C6: canShardOperation returns nil for every version >= the minimum,
\* errShardOperationVers for every version below it, and the error of the
\* version accessor itself whenever the retrieval fails, whatever version
\* comes with it.
GateDecision ==
    \A n \in Nodes :
        gateRet[n] # << >> =>
            LET ret == versRet[n][1]
                e == gateRet[n][1]
            IN  /\ ret.err # nil => e = ret.err
                /\ (ret.err = nil /\ ret.version >= 21000000) => e = nil
                /\ (ret.err = nil /\ ret.version < 21000000) =>
                      e = errShardOperationVers

\* the minimum version itself was accepted, and so the run went on
GateDecisionWitness ==
    \E n \in Nodes :
        /\ gateRet[n] = <<nil>>
        /\ versRet[n][1].err = nil
        /\ versRet[n][1].version = 21000000
        /\ "determineShards" \in {calls[n][k] : k \in DOMAIN calls[n]}

\* C7: inShard returns the stored boolean and no error for a key that was
\* inserted, and (false, errUnknownBackupShard) for any other key and for
\* the nil or empty determination; it never defaults silently.
LookupNoDefault ==
    /\ \A n \in Nodes : \A x \in DOMAIN lookups[n] :
          LET l == lookups[n][x]
              key == l.database \o <<46>> \o l.table
          IN  IF RowsOf(n, key) # {}
              THEN /\ l.err = nil
                   /\ l.present = sfRet[n][LastRow(n, key)].assigned
              ELSE /\ ~l.present
                   /\ Is(l.err, errUnknownBackupShard)
    /\ \A t \in TableIds : \A d \in {nilDetermination, emptyDetermination} :
          /\ ~inShard(d, t.Database, t.Name).present
          /\ Is(inShard(d, t.Database, t.Name).err, errUnknownBackupShard)

\* a stored false was read back without error, then a table the
\* determination does not know was refused
LookupNoDefaultWitness ==
    \E n \in Nodes :
        /\ Len(lookups[n]) = 2
        /\ lookups[n][1].err = nil
        /\ ~lookups[n][1].present
        /\ Is(lookups[n][2].err, errUnknownBackupShard)
        /\ assignment[n].entries # << >>
        /\ Done(n)

\* C8: with sharded operation off the function returns no error with every
\* table marked full, and neither the version accessor nor the sharder is
\* ever called, whatever the cluster would have answered.
FlagOffAllFull ==
    \A n \in Nodes :
        ~cfg[n] =>
            /\ pc[n] \in {"start", "done"}
            /\ calls[n] = << >>
            /\ versRet[n] = << >> /\ sfRet[n] = << >>
            /\ Done(n) => (err[n] = nil /\ AllFull(n))

\* a run with the flag off is over, on a batch of two tables
FlagOffAllFullWitness ==
    \E n \in Nodes :
        /\ ~cfg[n]
        /\ Done(n)
        /\ Len(tables[n]) >= 2
        /\ \A k \in DOMAIN writes[n] : writes[n][k] = 1

\* C9: with sharded operation on and a version below the minimum the
\* function fails with errShardOperationVers, determineShards is never
\* called, and every table is left marked full.
VersionTooOld ==
    \A n \in Nodes :
        (/\ cfg[n]
         /\ versRet[n] # << >>
         /\ versRet[n][1].err = nil
         /\ versRet[n][1].version < 21000000) =>
            /\ Done(n)
            /\ err[n] = errShardOperationVers
            /\ \A k \in DOMAIN calls[n] : calls[n][k] = "GetVersion"
            /\ md[n] = << >> /\ sfRet[n] = << >> /\ lookups[n] = << >>
            /\ AllFull(n)

\* the version just below the minimum stopped a run on a batch of tables
VersionTooOldWitness ==
    \E n \in Nodes :
        /\ cfg[n]
        /\ versRet[n] = <<[version |-> 21000000 - 1, err |-> nil]>>
        /\ Done(n)
        /\ Len(tables[n]) >= 1

\* C10: after a successful run with sharded operation on, a table is marked
\* full if and only if the assignment holds true for its qualified name and
\* schema-only if and only if it holds false; entries of the assignment for
\* other names change nothing.
AnnotationFollowsAssignment ==
    \A n \in Nodes :
        (cfg[n] /\ Done(n) /\ err[n] = nil) =>
            \A k \in DOMAIN tables[n] :
                LET t == tables[n][k]
                    key == t.Database \o <<46>> \o t.Name
                IN  /\ key \in DOMAIN assignment[n].entries
                    /\ t.BackupType = ShardBackupFull <=>
                          assignment[n].entries[key]
                    /\ t.BackupType = ShardBackupSchema <=>
                          ~assignment[n].entries[key]

\* a table ended schema-only next to an entry, true, of a table that is not
\* in the batch
AnnotationFollowsAssignmentWitness ==
    \E n \in Nodes :
        /\ cfg[n] /\ Done(n) /\ err[n] = nil
        /\ \E k \in DOMAIN tables[n] :
              /\ tables[n][k].BackupType = ShardBackupSchema
              /\ \E key \in DOMAIN assignment[n].entries :
                    /\ assignment[n].entries[key]
                    /\ \A j \in DOMAIN tables[n] :
                          tables[n][j].Database \o <<46>> \o tables[n][j].Name
                             # key

(***************************************************************************)
(* Exclusivity across the replicas of a table, under SpecCluster.          *)
(***************************************************************************)
\* every node ran populateBackupShardField to the end without error
AllSucceeded == \A n \in Nodes : Done(n) /\ err[n] = nil

\* the backup type node n ends with for table t
TypeOf(n, t) ==
    LET k == CHOOSE j \in DOMAIN tables[n] :
                 tables[n][j].Database = t.Database /\ tables[n][j].Name = t.Name
    IN  tables[n][k].BackupType

\* exactly one node holds table t in full, the others its schema only
OneFull(t) ==
    \E n \in Nodes :
        /\ TypeOf(n, t) = ShardBackupFull
        /\ \A m \in Nodes \ {n} : TypeOf(m, t) = ShardBackupSchema

\* no other table of the cluster has the qualified name of t
OwnName(t) ==
    \A u \in DOMAIN replicaIsActive :
        u.Database \o <<46>> \o u.Name = t.Database \o <<46>> \o t.Name => u = t

\* C1 as stated: if every replica runs successfully with sharded operation
\* on and all observe the same activity map of a table, exactly one replica
\* ends with the table full and every other with schema-only.
ClusterExclusiveAnyName ==
    \A t \in DOMAIN replicaIsActive : AllSucceeded => OneFull(t)

\* C1, for a table whose qualified name no other table of the replica-state
\* answer shares: if every replica runs successfully with sharded operation
\* on and all observe the same activity map of the table, exactly one
\* replica ends with the table full and every other with schema-only.
ClusterExclusive ==
    \A t \in DOMAIN replicaIsActive :
        (AllSucceeded /\ OwnName(t)) => OneFull(t)

\* every replica succeeded on a table with two active replicas and an
\* inactive one
ClusterExclusiveWitness ==
    \E t \in DOMAIN replicaIsActive :
        /\ AllSucceeded
        /\ OwnName(t)
        /\ Cardinality(ActiveSet(replicaIsActive[t])) = 2
        /\ Cardinality(DOMAIN replicaIsActive[t]) = 3
        /\ \A n \in Nodes : calls[n] # << >>
        /\ OneFull(t)

(***************************************************************************)
(* Failures of populateBackupShardField, under Spec.                       *)
(***************************************************************************)
\* determineShards returned an assignment to node n
Determined(n) == ~assignment[n].null

\* the qualified name of the k-th table of node n's batch
KeyOf(n, k) == tables[n][k].Database \o <<46>> \o tables[n][k].Name

\* the tables of node n's batch that have no entry in its assignment
Missing(n) ==
    {k \in DOMAIN tables[n] : KeyOf(n, k) \notin DOMAIN assignment[n].entries}

\* the first of them in input order
FirstMissing(n) == CHOOSE k \in Missing(n) : \A j \in Missing(n) : k <= j

\* C11: with sharded operation on and the version gate and the
\* determination both successful, the function fails with
\* errUnknownBackupShard if and only if a table of the batch has no entry in
\* the assignment; the error is that of the first such table in input order
\* and no table after it is looked up.
UnknownShardFirstTable ==
    \A n \in Nodes :
        (cfg[n] /\ Determined(n)) =>
            /\ \A x \in DOMAIN lookups[n] :
                  /\ lookups[n][x].index = x
                  /\ lookups[n][x].database = tables[n][x].Database
                  /\ lookups[n][x].table = tables[n][x].Name
                  /\ lookups[n][x].err # nil <=> x \in Missing(n)
                  /\ lookups[n][x].err # nil => x = Len(lookups[n])
            /\ Done(n) =>
                  /\ err[n] # nil <=> Missing(n) # {}
                  /\ Is(err[n], errUnknownBackupShard) <=> Missing(n) # {}
                  /\ Missing(n) # {} =>
                        /\ Len(lookups[n]) = FirstMissing(n)
                        /\ err[n] = lookups[n][FirstMissing(n)].err
                  /\ Missing(n) = {} => Len(lookups[n]) = Len(tables[n])

\* the first table of a batch of two is unknown, the second is known: the
\* run failed on the first and never looked the second up
UnknownShardFirstTableWitness ==
    \E n \in Nodes :
        /\ cfg[n] /\ Determined(n) /\ Done(n)
        /\ Len(tables[n]) = 2
        /\ Missing(n) = {1}
        /\ Len(lookups[n]) = 1
        /\ Is(err[n], errUnknownBackupShard)

\* C12: whenever populateBackupShardField returns an error (of the version
\* gate, of the determination, or of the lookup of any table, the first or
\* a later one) no table of the batch has been downgraded to schema-only:
\* every table is marked full.
NoPartialCommit ==
    \A n \in Nodes : (Done(n) /\ err[n] # nil) => AllFull(n)

(***************************************************************************)
(* determineShards as called by populateBackupShardField, under Spec.      *)
(***************************************************************************)
\* node n has called determineShards
Called(n) == \E k \in DOMAIN calls[n] : calls[n][k] = "determineShards"

\* the rows of node n's answer that have no active replica
Inactive(n) ==
    {k \in DOMAIN md[n] : \A r \in DOMAIN md[n][k].ReplicaIsActive :
                             md[n][k].ReplicaIsActive[r] <= 0}

\* the qualified names of the rows of node n's answer
RowKeys(n) ==
    {md[n][k].Database \o <<46>> \o md[n][k].Table : k \in DOMAIN md[n]}

\* C13: determineShards is all-or-nothing.  If the query fails or the
\* assignment function fails for a row, it returns that error and the nil
\* assignment, and no row after the first failing one is evaluated;
\* otherwise it returns an assignment with an entry for the qualified name
\* of every row, holding the value the function produced for it, and no
\* other entry.
DetermineAllOrNothing ==
    \A n \in Nodes :
        Called(n) =>
            IF Determined(n)
            THEN /\ Inactive(n) = {}
                 /\ Len(sfRet[n]) = Len(md[n])
                 /\ \A k \in DOMAIN sfRet[n] : sfRet[n][k].err = nil
                 /\ DOMAIN assignment[n].entries = RowKeys(n)
                 /\ \A key \in RowKeys(n) :
                       assignment[n].entries[key] =
                          sfRet[n][LastRow(n, key)].assigned
            ELSE /\ assignment[n] = nilDetermination
                 /\ Done(n) /\ err[n] # nil
                 /\ lookups[n] = << >>
                 /\ IF sfRet[n] = << >>
                    THEN /\ Is(err[n], errQuery)
                         /\ md[n] = << >>
                    ELSE /\ Inactive(n) # {}
                         /\ Len(sfRet[n]) =
                               CHOOSE k \in Inactive(n) :
                                  \A j \in Inactive(n) : k <= j
                         /\ sfRet[n][Len(sfRet[n])].err = err[n]
                         /\ Is(err[n], errNoActiveReplicas)
                         /\ \A k \in 1..(Len(sfRet[n]) - 1) :
                               sfRet[n][k].err = nil

\* the second of two rows has no active replica: the value computed for the
\* first is not returned
DetermineAllOrNothingWitness ==
    \E n \in Nodes :
        /\ Called(n)
        /\ ~Determined(n)
        /\ Len(md[n]) = 2
        /\ Len(sfRet[n]) = 2
        /\ sfRet[n][1].err = nil
        /\ Is(err[n], errNoActiveReplicas)

\* the calls a run may have made so far, in order: nothing, then GetVersion,
\* then determineShards with its one query, then lookups
CallPattern(k) ==
    IF k = 1 THEN "GetVersion"
    ELSE IF k = 2 THEN "determineShards"
    ELSE IF k = 3 THEN "StructSelectContext"
    ELSE "inShard"

\* C14: in every run the collaborators are called in the order version
\* accessor, determineShards (one replica-state query), lookups; the version
\* accessor and the query are each called at most once, the query only after
\* the version gate has passed, and no lookup is made before a
\* determination has succeeded.
CallOrder ==
    \A n \in Nodes :
        /\ \A k \in DOMAIN calls[n] : calls[n][k] = CallPattern(k)
        /\ Len(calls[n]) # 2
        /\ Len(calls[n]) >= 1 => (cfg[n] /\ Len(versRet[n]) = 1)
        /\ Len(calls[n]) >= 3 =>
              /\ gateRet[n] = <<nil>>
              /\ versRet[n][1].err = nil
              /\ versRet[n][1].version >= 21000000
        /\ Len(calls[n]) >= 4 =>
              /\ Determined(n)
              /\ Len(lookups[n]) = Len(calls[n]) - 3
              /\ Len(lookups[n]) <= Len(tables[n])
        /\ Len(calls[n]) < 4 => lookups[n] = << >>
        /\ Len(calls[n]) < 3 => (~Determined(n) /\ sfRet[n] = << >>)

\* a run that went through the gate, the query and two lookups
CallOrderWitness ==
    \E n \in Nodes :
        /\ Done(n)
        /\ Len(calls[n]) = 5
        /\ err[n] = nil

\* C15 as stated: in one run the backup type of each table is assigned
\* exactly once, whatever the outcome of the run and also for the tables
\* that end schema-only.
MutatedOnce ==
    \A n \in Nodes :
        Done(n) => \A k \in DOMAIN writes[n] : writes[n][k] = 1

\* C15: in one run the backup type of each table is assigned once, to full,
\* by the default loop, whatever the outcome of the run; it is assigned a
\* second time, to schema-only, exactly for the tables whose lookup returned
\* false, and never more than twice.
MutatedOnceOrTwice ==
    \A n \in Nodes : \A k \in DOMAIN writes[n] :
        IF pc[n] = "start" THEN writes[n][k] = 0
        ELSE /\ writes[n][k] \in {1, 2}
             /\ writes[n][k] = 2 <=>
                   tables[n][k].BackupType = ShardBackupSchema
             /\ writes[n][k] = 2 <=>
                   /\ k \in DOMAIN lookups[n]
                   /\ lookups[n][k].err = nil
                   /\ ~lookups[n][k].present

\* a finished run whose first table was assigned twice and whose second
\* table once
MutatedOnceOrTwiceWitness ==
    \E n \in Nodes :
        /\ Done(n) /\ err[n] = nil
        /\ Len(tables[n]) = 2
        /\ writes[n][1] = 2 /\ tables[n][1].BackupType = ShardBackupSchema
        /\ writes[n][2] = 1 /\ tables[n][2].BackupType = ShardBackupFull

\* the stage of node n's finished run that failed first, "none" if none did
FailedStage(n) ==
    IF ~cfg[n] THEN "none"
    ELSE IF versRet[n][1].err # nil THEN "version"
    ELSE IF versRet[n][1].version < 21000000 THEN "gate"
    ELSE IF ~Determined(n) /\ sfRet[n] = << >> THEN "query"
    ELSE IF ~Determined(n) THEN "row"
    ELSE IF Missing(n) # {} THEN "lookup"
    ELSE "none"

\* C16: no failure is swallowed and each keeps its identity.  A finished run
\* returns an error matching the version accessor's error,
\* errShardOperationVers, the error of determineShards or
\* errUnknownBackupShard according to the first stage that failed, and nil
\* only if none failed; the error of determineShards matches the querier's
\* error when the query failed and the assignment function's error when a
\* row failed.
ErrorIdentity ==
    \A n \in Nodes :
        Done(n) =>
            /\ FailedStage(n) = "none" <=> err[n] = nil
            /\ FailedStage(n) = "version" =>
                  (err[n] = versRet[n][1].err /\ Is(err[n], errVersion))
            /\ FailedStage(n) = "gate" => Is(err[n], errShardOperationVers)
            /\ FailedStage(n) = "query" =>
                  (Is(err[n], errQuery) /\ err[n] # errQuery)
            /\ FailedStage(n) = "row" =>
                  /\ err[n] = sfRet[n][Len(sfRet[n])].err
                  /\ Is(err[n], errNoActiveReplicas)
            /\ FailedStage(n) = "lookup" => Is(err[n], errUnknownBackupShard)
            /\ \A e \in {errVersion, errShardOperationVers, errQuery,
                         errNoActiveReplicas, errUnknownBackupShard} :
                  Is(err[n], e) =>
                     FailedStage(n) =
                        (errVersion :> "version" @@
                         errShardOperationVers :> "gate" @@
                         errQuery :> "query" @@
                         errNoActiveReplicas :> "row" @@
                         errUnknownBackupShard :> "lookup")[e]

\* the query failed behind a passed gate: the run returned the querier's
\* error, wrapped
ErrorIdentityWitness ==
    \E n \in Nodes :
        /\ Done(n)
        /\ FailedStage(n) = "query"
        /\ Is(err[n], errQuery)
        /\ Len(err[n]) = 2

\* C17: when the replica-state answer has several rows of one qualified
\* name, determineShards does not fail for that reason and the assignment
\* holds, under that name, the value computed for the last of these rows in
\* result order.
DuplicateRowsLastWins ==
    \A n \in Nodes :
        \A j, k \in DOMAIN md[n] :
            (/\ j < k
             /\ md[n][j].Database \o <<46>> \o md[n][j].Table =
                   md[n][k].Database \o <<46>> \o md[n][k].Table
             /\ Inactive(n) = {}
             /\ Called(n)) =>
                LET key == md[n][k].Database \o <<46>> \o md[n][k].Table
                    last == LastRow(n, key)
                IN  /\ Determined(n)
                    /\ sfRet[n][last].err = nil
                    /\ assignment[n].entries[key] = sfRet[n][last].assigned
                    /\ assignment[n].entries[key] =
                          fnvHashModShardFunc(md[n][last],
                              SeqOf(DOMAIN md[n][last].ReplicaIsActive)).assigned

\* two rows of one table, the first in the shard and the second not: the
\* assignment holds false
DuplicateRowsLastWinsWitness ==
    \E n \in Nodes :
        /\ Determined(n)
        /\ Len(md[n]) = 2
        /\ md[n][1].Database = md[n][2].Database
        /\ md[n][1].Table = md[n][2].Table
        /\ sfRet[n][1].assigned
        /\ ~sfRet[n][2].assigned
        /\ \A key \in DOMAIN assignment[n].entries :
              ~assignment[n].entries[key]

(***************************************************************************)
(* Ownership when the activity of a replica changes, under SpecChurn.      *)
(***************************************************************************)
\* the activity map node n observed for table t
ViewOf(n, t) ==
    LET k == CHOOSE j \in DOMAIN md[n] :
                 md[n][j].Database = t.Database /\ md[n][j].Table = t.Name
    IN  md[n][k].ReplicaIsActive

\* every node holds table t in full; no node does
AllClaim(t) == \A n \in Nodes : TypeOf(n, t) = ShardBackupFull
NoneClaims(t) == \A n \in Nodes : TypeOf(n, t) = ShardBackupSchema

\* C18: exclusivity depends on a common view.  When the replicas of a table
\* all ran successfully and the table ends in full on both or on none, they
\* evaluated the assignment function on activity maps that differ; and both
\* outcomes happen when the activity of one replica flips between the two
\* observations.
ChurnBreaksExclusivity ==
    \A t \in DOMAIN replicaIsActive :
        (AllSucceeded /\ ~OneFull(t)) =>
            /\ AllClaim(t) \/ NoneClaims(t)
            /\ \E n, m \in Nodes : ViewOf(n, t) # ViewOf(m, t)
            /\ flaps > 0

\* after two flips, each of one replica of one table, a table is held in
\* full by both replicas and another by none
ChurnBreaksExclusivityWitness ==
    /\ AllSucceeded
    /\ \E t, u \in DOMAIN replicaIsActive :
          /\ AllClaim(t)
          /\ NoneClaims(u)
          /\ \A x \in {t, u} :
                Cardinality({r \in Replicas :
                    r \in DOMAIN ViewOf(Local, x) /\
                    ViewOf(Local, x)[r] # ViewOf(Other, x)[r]}) = 1

(***************************************************************************)
(* What populateBackupShardField leaves alone, under Spec.                 *)
(***************************************************************************)
\* C19: a step of populateBackupShardField changes nothing of the tables it
\* is given but their backup type: their number, their order and the
\* database and name of each are kept in every outcome; and once
\* determineShards has returned the assignment, neither the function nor
\* inShard modifies it.
FrameOfAnnotation ==
    [][\A n \in Nodes :
          /\ Len(tables'[n]) = Len(tables[n])
          /\ \A k \in DOMAIN tables[n] :
                /\ tables'[n][k].Database = tables[n][k].Database
                /\ tables'[n][k].Name = tables[n][k].Name
          /\ Called(n) => assignment'[n] = assignment[n]
          /\ cfg'[n] = cfg[n]]_vars

\* a finished run that looked two tables up in an assignment of two entries
\* and downgraded the second
FrameOfAnnotationWitness ==
    \E n \in Nodes :
        /\ Done(n) /\ err[n] = nil
        /\ Len(lookups[n]) = 2
        /\ Cardinality(DOMAIN assignment[n].entries) = 2
        /\ tables[n][2].BackupType = ShardBackupSchema
        /\ tables[n][1].BackupType = ShardBackupFull
        /\ tables[n][1].Name # tables[n][2].Name

(***************************************************************************)
(* The qualified name as a key.                                            *)
(***************************************************************************)
\* the name s contains no "."
DotFree(s) == \A k \in DOMAIN s : s[k] # 46

\* the names of "a" and "b" up to MaxNameLen bytes, the empty name included
ShortNames == UNION {[1..k -> {97, 98}] : k \in 0..MaxNameLen}

\* the key is injective on the pairs of short names without "."
KeyInjective ==
    \A d1, t1, d2, t2 \in ShortNames :
        fullName(d1, t1) = fullName(d2, t2) => (d1 = d2 /\ t1 = t2)

\* C20: the key database + "." + table is injective on the pairs whose
\* names contain no ".", and the lookup of such a table never reads an
\* entry stored for another table; names with a "." collide, as ("a.b","c")
\* and ("a","b.c") do, and then a lookup returns the value of the other
\* table without error.
KeyCollision ==
    /\ KeyInjective
    /\ \A t, u \in TableIds :
          (DotFree(t.Database) /\ DotFree(t.Name) /\
           DotFree(u.Database) /\ DotFree(u.Name) /\
           fullName(t.Database, t.Name) = fullName(u.Database, u.Name)) =>
              t = u
    /\ fullName(<<97, 46, 98>>, <<99>>) = fullName(<<97>>, <<98, 46, 99>>)
    /\ \A n \in Nodes : \A x \in DOMAIN lookups[n] :
          LET l == lookups[n][x]
              key == l.database \o <<46>> \o l.table
          IN  (DotFree(l.database) /\ DotFree(l.table) /\ l.err = nil) =>
                 /\ RowsOf(n, key) # {}
                 /\ \A k \in RowsOf(n, key) :
                       /\ md[n][k].Database = l.database
                       /\ md[n][k].Table = l.table
                 /\ l.present = sfRet[n][LastRow(n, key)].assigned

\* the lookup of ("a","b.c") returned, without error, the value stored for
\* ("a.b","c"), the only row of the answer
KeyCollisionWitness ==
    \E n \in Nodes :
        /\ Len(md[n]) = 1
        /\ md[n][1].Database = <<97, 46, 98>> /\ md[n][1].Table = <<99>>
        /\ Len(lookups[n]) >= 1
        /\ lookups[n][1].database = <<97>>
        /\ lookups[n][1].table = <<98, 46, 99>>
        /\ lookups[n][1].err = nil
        /\ lookups[n][1].present = sfRet[n][1].assigned
        /\ lookups[n][1].present

=============================================================================
